---- MODULE Spec2Model ----
(***************************************************************************)
(* Model of the prompt synchronization engine of Creative-Prompt-Engineer  *)
(* (src/components/PromptGenerator.tsx, src/services/geminiService.ts),    *)
(* of its image editor (src/components/ImageEditor.tsx) and of its chat    *)
(* (ChatBot) and shell (App), both in src/unnamed/part_000.                *)
(*                                                                         *)
(* Text is a sequence of one-character strings.  One action models one     *)
(* event handler (or timer callback, or promise settlement) TOGETHER with  *)
(* the React render and the effects that render runs.                      *)
(***************************************************************************)
EXTENDS Naturals, Sequences, FiniteSets, TLC

VARIABLES
    promptParts,              \* useState<PromptParts | null>        (line 12)
    isLoadingAnalysis,        \* useState(true)                      (line 13)
    isReanalyzing,            \* useState(false)                     (line 14)
    error,                    \* useState<string | null>             (line 17)
    userIsEditingFullPrompt,  \* useRef(false)                       (line 20)
    initialAnalysisDone,      \* useRef(false)                       (line 21)
    debouncedFullPrompt,      \* useState('')                        (line 22)
    handler,                  \* the pending setTimeout: <<>> or <<text>>
    analysisCall,             \* the image-analysis promise: idle/pending/ok/failed
    inflight,                 \* prompts of the unsettled breakdownPromptIntoParts calls
    hist,                     \* history: counters of what has happened so far
    last,                     \* history: what the last step did
    isLoadingGeneration,      \* useState(false)                     (line 15)
    generatedImage,           \* useState<string | null>             (line 16)
    generating,               \* prompts of the unsettled generateImageFromPrompt calls
    ImageEditor,              \* the state of the ImageEditor component
    ChatBot,                  \* the state of the ChatBot component
    activeTab                 \* App: useState<Tab>('generator')

vars == <<promptParts, isLoadingAnalysis, isReanalyzing, error,
          userIsEditingFullPrompt, initialAnalysisDone, debouncedFullPrompt,
          handler, analysisCall, inflight, hist, last,
          isLoadingGeneration, generatedImage, generating,
          ImageEditor, ChatBot, activeTab>>

\* what the synchronization engine never touches
outside == <<isLoadingGeneration, generatedImage, generating,
             ImageEditor, ChatBot, activeTab>>

----------------------------------------------------------------------------
(* Bounds of the model *)

\* user edits (full-prompt and named-field) in one run of the engine
MaxEdits == 4
\* length of the full prompt in the text-surgery specification
MaxFullLen == 3
\* length of a named field's old and new value in the text-surgery specification
MaxPartLen == 2

\* the number of chat submissions accepted in one behaviour
MaxTurns == 3

----------------------------------------------------------------------------
(* Text *)

\* all sequences over S of length at most n
RECURSIVE StrsUpTo(_, _)
StrsUpTo(S, n) ==
    IF n = 0 THEN {<<>>}
    ELSE LET shorter == StrsUpTo(S, n - 1)
         IN  shorter \cup {Append(s, c) : s \in shorter, c \in S}

IsSpace(c) == c = " "

\* String.prototype.trim, left part
RECURSIVE TrimStart(_)
TrimStart(s) ==
    IF s # <<>> /\ IsSpace(Head(s)) THEN TrimStart(Tail(s)) ELSE s

\* String.prototype.trim, right part
RECURSIVE TrimEnd(_)
TrimEnd(s) ==
    IF s # <<>> /\ IsSpace(s[Len(s)]) THEN TrimEnd(SubSeq(s, 1, Len(s) - 1)) ELSE s

\* String.prototype.trim
Trim(s) == TrimEnd(TrimStart(s))

\* s.trim() === ''
IsBlank(s) == Trim(s) = <<>>

\* String.prototype.indexOf(pat), 1-based; 0 when pat does not occur
IndexOf(s, pat) ==
    LET hits == {i \in 1..(Len(s) + 1) :
                    /\ i + Len(pat) - 1 <= Len(s)
                    /\ SubSeq(s, i, i + Len(pat) - 1) = pat}
    IN  IF hits = {} THEN 0 ELSE CHOOSE i \in hits : \A j \in hits : i <= j

\* String.prototype.split(','): the segments between the commas ("" gives [""])
RECURSIVE SplitComma(_)
SplitComma(s) ==
    LET i == IndexOf(s, <<",">>)
    IN  IF i = 0 THEN <<s>>
        ELSE <<SubSeq(s, 1, i - 1)>> \o SplitComma(SubSeq(s, i + 1, Len(s)))

\* Array.prototype.map(p => p.trim())
MapTrim(segs) == [i \in 1..Len(segs) |-> Trim(segs[i])]

\* Array.prototype.filter(p => p): the non-empty strings, in order
RECURSIVE FilterNonEmpty(_)
FilterNonEmpty(segs) ==
    IF segs = <<>> THEN <<>>
    ELSE IF Head(segs) = <<>> THEN FilterNonEmpty(Tail(segs))
         ELSE <<Head(segs)>> \o FilterNonEmpty(Tail(segs))

\* Array.prototype.join(', ')
Join(segs) ==
    IF segs = <<>> THEN <<>>
    ELSE LET F[i \in 1..Len(segs)] ==
                 IF i = 1 THEN segs[1] ELSE F[i - 1] \o <<",", " ">> \o segs[i]
         IN  F[Len(segs)]

\* Bug variant of the clean-up: the segments are not trimmed.
Normalize_NoTrim(s) == Join(FilterNonEmpty(SplitComma(s)))

\* the comma clean-up of handlePromptPartChange
Normalize(s) == Join(FilterNonEmpty(MapTrim(SplitComma(s))))

\* GetSubstitution of String.prototype.replace for a string pattern (no capture
\* groups): in the replacement text $$ is "$", $& the match, $` the text before
\* the match, $' the text after it; any other $ is literal.
RECURSIVE GetSubstitution(_, _, _, _)
GetSubstitution(matched, str, position, replacement) ==
    IF replacement = <<>> THEN <<>>
    ELSE IF Head(replacement) = "$" /\ Len(replacement) >= 2
         THEN LET c    == replacement[2]
                  rest == SubSeq(replacement, 3, Len(replacement))
                  tail == GetSubstitution(matched, str, position, rest)
              IN  CASE c = "$" -> <<"$">> \o tail
                    [] c = "&" -> matched \o tail
                    [] c = "`" -> SubSeq(str, 1, position - 1) \o tail
                    [] c = "'" -> SubSeq(str, position + Len(matched), Len(str)) \o tail
                    [] OTHER   -> <<"$">> \o
                                  GetSubstitution(matched, str, position,
                                                  Tail(replacement))
         ELSE <<Head(replacement)>> \o
              GetSubstitution(matched, str, position, Tail(replacement))

\* String.prototype.replace(pattern, replacement) with a string pattern: the first
\* occurrence only
Replace(str, pattern, replacement) ==
    LET i == IndexOf(str, pattern)
    IN  IF i = 0 THEN str
        ELSE SubSeq(str, 1, i - 1)
             \o GetSubstitution(pattern, str, i, replacement)
             \o SubSeq(str, i + Len(pattern), Len(str))

----------------------------------------------------------------------------
(* PromptParts *)

Fields == {"scene", "background", "imageType", "style", "texture", "lighting", "details"}

Keys == Fields \cup {"fullPrompt"}

\* promptParts === null
Null == [null |-> TRUE]

\* a PromptParts object
Parts(named, full) == [k \in Keys |-> IF k = "fullPrompt" THEN full ELSE named[k]]

\* promptParts?.fullPrompt: "undefined" for null
FullPromptOf(pp) == IF pp = Null THEN <<"undefined">> ELSE <<"string", pp["fullPrompt"]>>


\* Bug variant of breakdownPromptIntoParts: the Gateway's echo of the prompt is kept.
breakdownPromptIntoParts_KeepEcho(prompt, parsed) == parsed

\* breakdownPromptIntoParts, after the response parsed: the echoed fullPrompt is
\* overwritten with the prompt that was submitted
breakdownPromptIntoParts(prompt, parsed) == [parsed EXCEPT !["fullPrompt"] = prompt]

\* Bug variant of handlePromptPartChange: a new concept is appended after a
\* space, without the comma.
handlePromptPartChange_NoComma(prev, field, value) ==
    IF prev = Null THEN Null
    ELSE IF field = "fullPrompt" THEN [prev EXCEPT !["fullPrompt"] = value]
    ELSE LET oldValue == prev[field]
             full     == prev["fullPrompt"]
             newFull  ==
                 IF oldValue # <<>> /\ ~IsBlank(oldValue)
                 THEN Replace(full, oldValue, value)
                 ELSE IF value # <<>> /\ ~IsBlank(value)
                      THEN IF IsBlank(full) THEN value
                           ELSE full \o <<" ">> \o value
                      ELSE full
         IN  [prev EXCEPT ![field] = value, !["fullPrompt"] = Normalize(newFull)]

\* The updater passed to setPromptParts by handlePromptPartChange(field, value)
handlePromptPartChange(prev, field, value) ==
    IF prev = Null THEN Null
    ELSE IF field = "fullPrompt" THEN [prev EXCEPT !["fullPrompt"] = value]
    ELSE LET oldValue == prev[field]
             full     == prev["fullPrompt"]
             newFull  ==
                 IF oldValue # <<>> /\ ~IsBlank(oldValue)
                 THEN Replace(full, oldValue, value)
                 ELSE IF value # <<>> /\ ~IsBlank(value)
                      THEN IF IsBlank(full) THEN value
                           ELSE full \o <<",", " ">> \o value
                      ELSE full
         IN  [prev EXCEPT ![field] = value, !["fullPrompt"] = Normalize(newFull)]

\* Bug variant: the flag is never raised.
DirtyFlagAfter_Never(prev, field, flag) == flag

\* userIsEditingFullPrompt.current after the updater ran: raised by an edit of
\* the full prompt of a present prompt
DirtyFlagAfter(prev, field, flag) ==
    IF prev # Null /\ field = "fullPrompt" THEN TRUE ELSE flag

\* Bug variant of the debounce effect: a timer that is already pending is left
\* running with its old text instead of being restarted.
DebounceEffect_NoRestart(old, new, h) ==
    IF FullPromptOf(old) = FullPromptOf(new) THEN h
    ELSE IF h # <<>> THEN h
    ELSE IF new # Null /\ new["fullPrompt"] # <<>> THEN <<new["fullPrompt"]>>
    ELSE <<>>

\* The debounce effect (deps [promptParts?.fullPrompt]) after a render that took
\* promptParts from old to new: when the dependency changed, the pending timer
\* is cleared and, for a non-empty full prompt, a new one is set with that text.
DebounceEffect(old, new, h) ==
    IF FullPromptOf(old) = FullPromptOf(new) THEN h
    ELSE IF new # Null /\ new["fullPrompt"] # <<>> THEN <<new["fullPrompt"]>>
    ELSE <<>>

\* history: who set the pending timer
TimerBy(old, new, who, by) ==
    IF FullPromptOf(old) = FullPromptOf(new) THEN by
    ELSE IF new # Null /\ new["fullPrompt"] # <<>> THEN who
    ELSE "none"

----------------------------------------------------------------------------
(* Inputs *)

T_a == <<"a">>
T_b == <<"b">>
T_c == <<"c">>

NoFields == [f \in Fields |-> <<>>]

\* what the Gateway may answer to the image analysis
AnalysisResults ==
    { Parts([NoFields EXCEPT !["scene"] = T_a], T_a),
      Parts(NoFields, <<>>) }

\* what the Gateway may answer to a text re-analysis (fullPrompt is its echo)
Breakdowns ==
    { Parts([NoFields EXCEPT !["scene"] = T_b], T_b),
      Parts([NoFields EXCEPT !["scene"] = T_a, !["texture"] = T_c], <<"a", ",", "c">>) }

\* what the user may type into the full-prompt text area
UserTexts == { <<>>, <<" ">>, T_a, T_b, T_c }

\* what the user may type into which named field
FieldInputs == { <<"scene", T_b>>, <<"scene", <<>>>>, <<"texture", T_c>> }

----------------------------------------------------------------------------
(* State *)

NoLast ==
    [op |-> "init", by |-> "none", issued |-> <<>>, prev |-> Null,
     field |-> "", value |-> <<>>, text |-> <<>>, resp |-> Null,
     burst |-> 0, typed |-> <<>>, debounced |-> <<>>, inflight |-> <<>>,
     flag |-> FALSE]

\* the state of a freshly mounted PromptGenerator, before its effects ran
MountState ==
    /\ promptParts = Null
    /\ isLoadingAnalysis = TRUE
    /\ isReanalyzing = FALSE
    /\ error = "null"
    /\ userIsEditingFullPrompt = FALSE
    /\ initialAnalysisDone = FALSE
    /\ debouncedFullPrompt = <<>>
    /\ handler = <<>>
    /\ analysisCall = "idle"
    /\ inflight = <<>>

\* the state of a freshly mounted ImageEditor (editing: the instructions of the
\* unsettled editImageWithPrompt calls)
EditorMount ==
    [prompt |-> <<>>, editedImage |-> "null", isLoading |-> FALSE,
     error |-> "null", editing |-> <<>>]

\* the state of a freshly mounted ChatBot, before its mount effect ran (sending:
\* the messages of the unsettled chat.sendMessage calls; sent and replies:
\* history, the texts submitted and what came back for them)
ChatMount ==
    [chat |-> "null", messages |-> <<>>, input |-> <<>>, isLoading |-> FALSE,
     sending |-> <<>>, sent |-> <<>>, replies |-> <<>>]

\* the generation state of a freshly mounted PromptGenerator and the components
\* App does not render beside it
OutsideMount ==
    /\ isLoadingGeneration = FALSE
    /\ generatedImage = "null"
    /\ generating = <<>>
    /\ ImageEditor = EditorMount
    /\ ChatBot = ChatMount

Init ==
    /\ MountState
    /\ OutsideMount
    /\ activeTab = "generator"
    /\ hist = [edits |-> 0, analysisCalls |-> 0, timerBy |-> "none",
               burst |-> 0, typed |-> <<>>]
    /\ last = NoLast

----------------------------------------------------------------------------
(* Initial analysis *)

\* the mount effect: runAnalysis() up to its await
runAnalysis ==
    /\ analysisCall = "idle"
    /\ isLoadingAnalysis' = TRUE
    /\ initialAnalysisDone' = FALSE
    /\ error' = "null"
    /\ analysisCall' = "pending"
    /\ hist' = [hist EXCEPT !.analysisCalls = @ + 1]
    /\ last' = [NoLast EXCEPT !.op = "runAnalysis", !.prev = promptParts]
    /\ UNCHANGED outside
    /\ UNCHANGED <<promptParts, isReanalyzing, userIsEditingFullPrompt,
                   debouncedFullPrompt, handler, inflight>>

\* runAnalysis resumes with the Gateway's result
AnalysisSucceeds(result) ==
    /\ analysisCall = "pending"
    /\ promptParts' = result
    /\ isLoadingAnalysis' = FALSE
    /\ initialAnalysisDone' = TRUE
    /\ analysisCall' = "ok"
    /\ handler' = DebounceEffect(promptParts, result, handler)
    /\ hist' = [hist EXCEPT !.timerBy = TimerBy(promptParts, result, "analysis", @)]
    /\ last' = [NoLast EXCEPT !.op = "analysisOk", !.prev = promptParts,
                              !.resp = result]
    /\ UNCHANGED outside
    /\ UNCHANGED <<isReanalyzing, error, userIsEditingFullPrompt,
                   debouncedFullPrompt, inflight>>

\* Bug variant of runAnalysis' catch block: the analysis is started again.
AnalysisFails_Retry ==
    /\ analysisCall = "pending"
    /\ error' = "Failed to analyze the image. Please try again."
    /\ isLoadingAnalysis' = TRUE
    /\ initialAnalysisDone' = FALSE
    /\ analysisCall' = "pending"
    /\ hist' = [hist EXCEPT !.analysisCalls = IF @ < 3 THEN @ + 1 ELSE @]
    /\ last' = [NoLast EXCEPT !.op = "analysisFail", !.prev = promptParts]
    /\ UNCHANGED outside
    /\ UNCHANGED <<promptParts, isReanalyzing, userIsEditingFullPrompt,
                   debouncedFullPrompt, handler, inflight>>

\* runAnalysis resumes in its catch block
AnalysisFails ==
    /\ analysisCall = "pending"
    /\ error' = "Failed to analyze the image. Please try again."
    /\ isLoadingAnalysis' = FALSE
    /\ initialAnalysisDone' = TRUE
    /\ analysisCall' = "failed"
    /\ last' = [NoLast EXCEPT !.op = "analysisFail", !.prev = promptParts]
    /\ UNCHANGED outside
    /\ UNCHANGED <<promptParts, isReanalyzing, userIsEditingFullPrompt,
                   debouncedFullPrompt, handler, inflight, hist>>

----------------------------------------------------------------------------
(* User edits *)

\* handlePromptPartChange(field, value) with the render and effects it causes
PromptPartChange(field, value, who) ==
    LET new == handlePromptPartChange(promptParts, field, value)
        full == (promptParts # Null /\ field = "fullPrompt")
    IN  /\ promptParts' = new
        /\ userIsEditingFullPrompt' =
               DirtyFlagAfter(promptParts, field, userIsEditingFullPrompt)
        /\ handler' = DebounceEffect(promptParts, new, handler)
        /\ hist' = [hist EXCEPT
                       !.edits = @ + 1,
                       !.timerBy = TimerBy(promptParts, new, who, @),
                       !.burst = IF full THEN @ + 1 ELSE @,
                       !.typed = IF full THEN value ELSE @]
        /\ last' = [NoLast EXCEPT !.op = who, !.prev = promptParts,
                                  !.field = field, !.value = value,
                                  !.flag = userIsEditingFullPrompt]
        /\ UNCHANGED outside
        /\ UNCHANGED <<isLoadingAnalysis, isReanalyzing, error, initialAnalysisDone,
                       debouncedFullPrompt, analysisCall, inflight>>

\* onChange of the full-prompt text area (a change event carries a new text)
FullPromptEdit(value) ==
    /\ hist.edits < MaxEdits
    /\ promptParts # Null => value # promptParts["fullPrompt"]
    /\ PromptPartChange("fullPrompt", value, "user")

\* onChange of the input of a named field
FieldEdit(field, value) ==
    /\ hist.edits < MaxEdits
    /\ field \in Fields
    /\ promptParts # Null => value # promptParts[field]
    /\ PromptPartChange(field, value, "field")

----------------------------------------------------------------------------
(* Debounce and re-analysis *)

\* Bug variant of the trigger effect: it does not look at the dirty flag.
TriggerRuns_NoFlag(value, debounced, flag, done) ==
    value # debounced /\ value # <<>> /\ done

\* Whether the trigger effect (deps [debouncedFullPrompt, reAnalyzePrompt]) runs
\* its body after setDebouncedFullPrompt(value): the state must change for the
\* effect to run at all, and the body is guarded by the three conditions.
TriggerRuns(value, debounced, flag, done) ==
    value # debounced /\ value # <<>> /\ flag /\ done

\* Bug variant of reAnalyzePrompt's guard: blank text is submitted too.
ReAnalyzeCalls_Blank(prompt) == TRUE

\* reAnalyzePrompt(prompt) goes on to the Gateway unless the prompt is blank
ReAnalyzeCalls(prompt) == ~IsBlank(prompt)

\* The timer callback, 500 ms after the full prompt last changed:
\* setDebouncedFullPrompt, then the trigger effect, then reAnalyzePrompt up to
\* its await.
DebounceTimerFires ==
    /\ handler # <<>>
    /\ LET value == handler[1]
           runs  == TriggerRuns(value, debouncedFullPrompt,
                                userIsEditingFullPrompt, initialAnalysisDone)
           calls == runs /\ ReAnalyzeCalls(value)
       IN  /\ debouncedFullPrompt' = value
           /\ handler' = <<>>
           /\ userIsEditingFullPrompt' = IF runs THEN FALSE ELSE userIsEditingFullPrompt
           /\ isReanalyzing' = IF calls THEN TRUE ELSE isReanalyzing
           /\ error' = IF calls THEN "null" ELSE error
           /\ inflight' = IF calls THEN Append(inflight, value) ELSE inflight
           /\ hist' = [hist EXCEPT !.timerBy = "none", !.burst = 0]
           /\ last' = [NoLast EXCEPT
                          !.op = "timer", !.by = hist.timerBy, !.prev = promptParts,
                          !.issued = IF calls THEN <<value>> ELSE <<>>,
                          !.burst = hist.burst, !.typed = hist.typed,
                          !.debounced = debouncedFullPrompt,
                          !.text = value, !.flag = userIsEditingFullPrompt]
    /\ UNCHANGED outside
    /\ UNCHANGED <<promptParts, isLoadingAnalysis, initialAnalysisDone, analysisCall>>

\* 500 ms pass after the last edit of a burst that left no timer pending (the
\* full prompt was emptied): nothing runs.
DebounceQuiet ==
    /\ handler = <<>>
    /\ hist.burst > 0
    /\ hist' = [hist EXCEPT !.burst = 0]
    /\ last' = [NoLast EXCEPT !.op = "quiet", !.prev = promptParts,
                              !.burst = hist.burst, !.typed = hist.typed,
                              !.debounced = debouncedFullPrompt]
    /\ UNCHANGED outside
    /\ UNCHANGED <<promptParts, isLoadingAnalysis, isReanalyzing, error,
                   userIsEditingFullPrompt, initialAnalysisDone,
                   debouncedFullPrompt, handler, analysisCall, inflight>>

\* inflight without its i-th call
Settle(calls, i) == SubSeq(calls, 1, i - 1) \o SubSeq(calls, i + 1, Len(calls))

\* Bug variant of reAnalyzePrompt's try block: the result of a call whose prompt
\* is no longer the text of the field is dropped.
ReanalysisSucceeds_DropStale(i, parsed) ==
    /\ i \in 1..Len(inflight)
    /\ LET result == IF promptParts["fullPrompt"] = inflight[i]
                     THEN breakdownPromptIntoParts(inflight[i], parsed)
                     ELSE promptParts
       IN  /\ promptParts' = result
           /\ handler' = DebounceEffect(promptParts, result, handler)
           /\ hist' = [hist EXCEPT !.timerBy = TimerBy(promptParts, result, "commit", @)]
    /\ isReanalyzing' = FALSE
    /\ inflight' = Settle(inflight, i)
    /\ last' = [NoLast EXCEPT !.op = "commit", !.prev = promptParts,
                              !.text = inflight[i], !.resp = parsed,
                              !.by = hist.timerBy, !.inflight = inflight]
    /\ UNCHANGED outside
    /\ UNCHANGED <<isLoadingAnalysis, error, userIsEditingFullPrompt,
                   initialAnalysisDone, debouncedFullPrompt, analysisCall>>

\* the i-th unsettled breakdownPromptIntoParts call returns the parsed response:
\* reAnalyzePrompt resumes in its try block, then finally
ReanalysisSucceeds(i, parsed) ==
    /\ i \in 1..Len(inflight)
    /\ LET result == breakdownPromptIntoParts(inflight[i], parsed)
       IN  /\ promptParts' = result
           /\ handler' = DebounceEffect(promptParts, result, handler)
           /\ hist' = [hist EXCEPT !.timerBy = TimerBy(promptParts, result, "commit", @)]
    /\ isReanalyzing' = FALSE
    /\ inflight' = Settle(inflight, i)
    /\ last' = [NoLast EXCEPT !.op = "commit", !.prev = promptParts,
                              !.text = inflight[i], !.resp = parsed,
                              !.by = hist.timerBy, !.inflight = inflight]
    /\ UNCHANGED outside
    /\ UNCHANGED <<isLoadingAnalysis, error, userIsEditingFullPrompt,
                   initialAnalysisDone, debouncedFullPrompt, analysisCall>>

\* Bug variant of reAnalyzePrompt's catch block: the call is issued again.
ReanalysisFails_Retry(i) ==
    /\ i \in 1..Len(inflight)
    /\ error' = "Failed to re-analyze the prompt. Please try again."
    /\ isReanalyzing' = TRUE
    /\ inflight' = Append(Settle(inflight, i), inflight[i])
    /\ last' = [NoLast EXCEPT !.op = "reanalysisFail", !.prev = promptParts,
                              !.text = inflight[i], !.inflight = inflight]
    /\ UNCHANGED outside
    /\ UNCHANGED <<promptParts, isLoadingAnalysis, userIsEditingFullPrompt,
                   initialAnalysisDone, debouncedFullPrompt, handler,
                   analysisCall, hist>>

\* the i-th unsettled call throws (network, or a response that does not parse):
\* reAnalyzePrompt resumes in its catch block, then finally
ReanalysisFails(i) ==
    /\ i \in 1..Len(inflight)
    /\ error' = "Failed to re-analyze the prompt. Please try again."
    /\ isReanalyzing' = FALSE
    /\ inflight' = Settle(inflight, i)
    /\ last' = [NoLast EXCEPT !.op = "reanalysisFail", !.prev = promptParts,
                              !.text = inflight[i], !.inflight = inflight]
    /\ UNCHANGED outside
    /\ UNCHANGED <<promptParts, isLoadingAnalysis, userIsEditingFullPrompt,
                   initialAnalysisDone, debouncedFullPrompt, handler,
                   analysisCall, hist>>

----------------------------------------------------------------------------
(* The engine *)

Next ==
    \/ runAnalysis
    \/ \E result \in AnalysisResults : AnalysisSucceeds(result)
    \/ AnalysisFails
    \/ \E value \in UserTexts : FullPromptEdit(value)
    \/ \E input \in FieldInputs : FieldEdit(input[1], input[2])
    \/ DebounceTimerFires
    \/ DebounceQuiet
    \/ \E i \in 1..Len(inflight), parsed \in Breakdowns : ReanalysisSucceeds(i, parsed)
    \/ \E i \in 1..Len(inflight) : ReanalysisFails(i)

Spec == Init /\ [][Next]_vars

----------------------------------------------------------------------------
(* Text surgery alone: handlePromptPartChange applied once to a prompt whose
   texts are drawn from all short strings *)

\* the characters of the full prompt and of a field's old value
PromptChars == {"a", ",", " "}

\* the characters the user may type into a named field
TypedChars == {"a", ",", " ", "$"}

\* the named fields edited in the text-surgery specification
SurgeryFields == {"scene", "texture"}

InitSurgery ==
    /\ \E old \in StrsUpTo(PromptChars, MaxPartLen),
          full \in StrsUpTo(PromptChars, MaxFullLen) :
           /\ promptParts = Parts([f \in Fields |-> old], full)
           /\ handler = IF full = <<>> THEN <<>> ELSE <<full>>
    /\ isLoadingAnalysis = FALSE
    /\ isReanalyzing = FALSE
    /\ error = "null"
    /\ userIsEditingFullPrompt = FALSE
    /\ initialAnalysisDone = TRUE
    /\ debouncedFullPrompt = <<>>
    /\ analysisCall = "ok"
    /\ inflight = <<>>
    /\ hist = [edits |-> 0, analysisCalls |-> 1,
               timerBy |-> IF handler = <<>> THEN "none" ELSE "analysis",
               burst |-> 0, typed |-> <<>>]
    /\ last = NoLast
    /\ OutsideMount
    /\ activeTab = "generator"

\* one call of handlePromptPartChange on a named field, with any typed text
FieldEditAny(field, value) ==
    /\ hist.edits = 0
    /\ PromptPartChange(field, value, "field")

NextSurgery ==
    \E field \in SurgeryFields, value \in StrsUpTo(TypedChars, MaxPartLen) :
        FieldEditAny(field, value)

SpecSurgery == InitSurgery /\ [][NextSurgery]_vars

----------------------------------------------------------------------------
(* ChatBot *)

\* the variables of PromptGenerator's engine, which no other component touches
engine == <<promptParts, isLoadingAnalysis, isReanalyzing, error,
            userIsEditingFullPrompt, initialAnalysisDone, debouncedFullPrompt,
            handler, analysisCall, inflight, hist>>

\* the generation state of PromptGenerator
generation == <<isLoadingGeneration, generatedImage, generating>>

\* what the user types into the chat input (e.target.value)
ChatInputs == { <<>>, <<" ">>, T_a, <<"a", " ">> }

\* response.text of a chat.sendMessage call that succeeded
ChatReplies == { <<>>, T_b }

\* the two fixed messages (their texts are kept whole, as one element)
Greeting == [role |-> "model", text |-> <<"Hello! How can I help you with your creative process today?">>]

ChatError == [role |-> "model", text |-> <<"Sorry, I encountered an error. Please try again.">>]

\* ChatBot's mount effect: the session is created and the greeting is set
ChatMountEffect ==
    /\ activeTab = "chat"
    /\ ChatBot.chat = "null"
    /\ ChatBot' = [ChatBot EXCEPT !.chat = "session", !.messages = <<Greeting>>]
    /\ last' = [NoLast EXCEPT !.op = "chatMount"]
    /\ UNCHANGED <<engine, generation, ImageEditor, activeTab>>

\* onChange of the chat input, which is disabled while a turn is outstanding
setInput(value) ==
    /\ activeTab = "chat"
    /\ ~ChatBot.isLoading
    /\ ChatBot' = [ChatBot EXCEPT !.input = value]
    /\ last' = [NoLast EXCEPT !.op = "setInput", !.value = value]
    /\ UNCHANGED <<engine, generation, ImageEditor, activeTab>>

\* handleSend's guard: the submission is dropped
SendRejected(cb) == IsBlank(cb.input) \/ cb.chat = "null" \/ cb.isLoading

\* handleSend up to its await: a rejected submission changes nothing; an accepted
\* one appends the user message, empties the input, raises isLoading and calls
\* chat.sendMessage with the text as typed.
handleSend ==
    /\ activeTab = "chat"
    /\ Len(ChatBot.sent) < MaxTurns
    /\ IF SendRejected(ChatBot)
       THEN /\ ChatBot' = ChatBot
            /\ last' = [NoLast EXCEPT !.op = "sendRejected", !.value = ChatBot.input]
       ELSE /\ ChatBot' = [ChatBot EXCEPT
                              !.messages = Append(@, [role |-> "user", text |-> ChatBot.input]),
                              !.input = <<>>,
                              !.isLoading = TRUE,
                              !.sending = Append(@, ChatBot.input),
                              !.sent = Append(@, ChatBot.input)]
            /\ last' = [NoLast EXCEPT !.op = "send", !.value = ChatBot.input]
    /\ UNCHANGED <<engine, generation, ImageEditor, activeTab>>

\* chat.sendMessage resolves: the model message is appended, isLoading falls
ChatTurnSucceeds(text) ==
    /\ activeTab = "chat"
    /\ ChatBot.sending # <<>>
    /\ ChatBot' = [ChatBot EXCEPT
                      !.messages = Append(@, [role |-> "model", text |-> text]),
                      !.isLoading = FALSE,
                      !.sending = Tail(@),
                      !.replies = Append(@, [role |-> "model", text |-> text])]
    /\ last' = [NoLast EXCEPT !.op = "reply", !.value = text]
    /\ UNCHANGED <<engine, generation, ImageEditor, activeTab>>

\* Bug variant of handleSend's catch block: the failure is only logged.
ChatTurnFails_Silent ==
    /\ activeTab = "chat"
    /\ ChatBot.sending # <<>>
    /\ ChatBot' = [ChatBot EXCEPT
                      !.isLoading = FALSE,
                      !.sending = Tail(@),
                      !.replies = Append(@, ChatError)]
    /\ last' = [NoLast EXCEPT !.op = "replyFail"]
    /\ UNCHANGED <<engine, generation, ImageEditor, activeTab>>

\* Bug variant of handleSend's catch block: the error message takes the place of
\* the user message it answers.
ChatTurnFails_Replace ==
    /\ activeTab = "chat"
    /\ ChatBot.sending # <<>>
    /\ ChatBot' = [ChatBot EXCEPT
                      !.messages = Append(SubSeq(@, 1, Len(@) - 1), ChatError),
                      !.isLoading = FALSE,
                      !.sending = Tail(@),
                      !.replies = Append(@, ChatError)]
    /\ last' = [NoLast EXCEPT !.op = "replyFail"]
    /\ UNCHANGED <<engine, generation, ImageEditor, activeTab>>

\* chat.sendMessage rejects: the fixed error message is appended, isLoading falls
ChatTurnFails ==
    /\ activeTab = "chat"
    /\ ChatBot.sending # <<>>
    /\ ChatBot' = [ChatBot EXCEPT
                      !.messages = Append(@, ChatError),
                      !.isLoading = FALSE,
                      !.sending = Tail(@),
                      !.replies = Append(@, ChatError)]
    /\ last' = [NoLast EXCEPT !.op = "replyFail"]
    /\ UNCHANGED <<engine, generation, ImageEditor, activeTab>>

\* App with the chat tab chosen: ChatBot has been rendered, nothing else is
InitChat ==
    /\ MountState
    /\ OutsideMount
    /\ activeTab = "chat"
    /\ hist = [edits |-> 0, analysisCalls |-> 0, timerBy |-> "none",
               burst |-> 0, typed |-> <<>>]
    /\ last = NoLast

NextChat ==
    \/ ChatMountEffect
    \/ \E value \in ChatInputs : setInput(value)
    \/ handleSend
    \/ \E text \in ChatReplies : ChatTurnSucceeds(text)
    \/ ChatTurnFails

SpecChat == InitChat /\ [][NextChat]_vars

----------------------------------------------------------------------------
(* ImageEditor *)

\* what the user types into the edit instruction input
EditInstructions == { <<>>, <<" ">>, T_a, T_b }

\* what editImageWithPrompt resolves to (a data URL)
EditedImages == { "edited1", "edited2" }

EditError == "Failed to edit image. The model might not support this edit."

\* onChange of the edit instruction input (it is never disabled)
setPrompt(value) ==
    /\ activeTab = "editor"
    /\ ImageEditor' = [ImageEditor EXCEPT !.prompt = value]
    /\ last' = [NoLast EXCEPT !.op = "setPrompt", !.value = value, !.prev = ImageEditor]
    /\ UNCHANGED <<engine, generation, ChatBot, activeTab>>

\* Bug variant of handleEditImage: the previous result stays while the call runs.
handleEditImage_KeepResult ==
    /\ activeTab = "editor"
    /\ ~ImageEditor.isLoading
    /\ IF ImageEditor.prompt = <<>>
       THEN /\ ImageEditor' = ImageEditor
            /\ last' = [NoLast EXCEPT !.op = "editRejected", !.prev = ImageEditor]
       ELSE /\ ImageEditor' = [ImageEditor EXCEPT
                                  !.isLoading = TRUE,
                                  !.error = "null",
                                  !.editing = Append(@, [prompt |-> ImageEditor.prompt,
                                                         image |-> "original"])]
            /\ last' = [NoLast EXCEPT !.op = "edit", !.value = ImageEditor.prompt,
                                      !.prev = ImageEditor]
    /\ UNCHANGED <<engine, generation, ChatBot, activeTab>>

\* handleEditImage up to its await (its button is disabled while isLoading): an
\* empty instruction is dropped; otherwise error and result are cleared,
\* isLoading is raised and editImageWithPrompt is called with the uploaded image
\* and the instruction.
handleEditImage ==
    /\ activeTab = "editor"
    /\ ~ImageEditor.isLoading
    /\ IF ImageEditor.prompt = <<>>
       THEN /\ ImageEditor' = ImageEditor
            /\ last' = [NoLast EXCEPT !.op = "editRejected", !.prev = ImageEditor]
       ELSE /\ ImageEditor' = [ImageEditor EXCEPT
                                  !.isLoading = TRUE,
                                  !.error = "null",
                                  !.editedImage = "null",
                                  !.editing = Append(@, [prompt |-> ImageEditor.prompt,
                                                         image |-> "original"])]
            /\ last' = [NoLast EXCEPT !.op = "edit", !.value = ImageEditor.prompt,
                                      !.prev = ImageEditor]
    /\ UNCHANGED <<engine, generation, ChatBot, activeTab>>

\* editImageWithPrompt resolves: the result is stored, isLoading falls
EditSucceeds(result) ==
    /\ activeTab = "editor"
    /\ ImageEditor.editing # <<>>
    /\ ImageEditor' = [ImageEditor EXCEPT
                          !.editedImage = result,
                          !.isLoading = FALSE,
                          !.editing = Tail(@)]
    /\ last' = [NoLast EXCEPT !.op = "editOk", !.resp = result, !.prev = ImageEditor]
    /\ UNCHANGED <<engine, generation, ChatBot, activeTab>>

\* editImageWithPrompt rejects: the error is stored, isLoading falls
EditFails ==
    /\ activeTab = "editor"
    /\ ImageEditor.editing # <<>>
    /\ ImageEditor' = [ImageEditor EXCEPT
                          !.error = EditError,
                          !.isLoading = FALSE,
                          !.editing = Tail(@)]
    /\ last' = [NoLast EXCEPT !.op = "editFail", !.prev = ImageEditor]
    /\ UNCHANGED <<engine, generation, ChatBot, activeTab>>

\* App with an image uploaded and the editor tab chosen
InitEditor ==
    /\ MountState
    /\ OutsideMount
    /\ activeTab = "editor"
    /\ hist = [edits |-> 0, analysisCalls |-> 0, timerBy |-> "none",
               burst |-> 0, typed |-> <<>>]
    /\ last = NoLast

NextEditor ==
    \/ \E value \in EditInstructions : setPrompt(value)
    \/ handleEditImage
    \/ \E result \in EditedImages : EditSucceeds(result)
    \/ EditFails

SpecEditor == InitEditor /\ [][NextEditor]_vars

----------------------------------------------------------------------------
(* Image generation *)

\* what generateImageFromPrompt resolves to (a data URL)
GeneratedImages == { "generated1", "generated2" }

GenerationError == "Failed to generate image. Please try a different prompt."

\* Bug variant of handleGenerateImage's finally block: isLoadingGeneration is
\* lowered only on success.
GenerationFails_Stuck ==
    /\ generating # <<>>
    /\ error' = GenerationError
    /\ generating' = Tail(generating)
    /\ last' = [NoLast EXCEPT !.op = "generateFail"]
    /\ UNCHANGED <<promptParts, isLoadingAnalysis, isReanalyzing,
                   userIsEditingFullPrompt, initialAnalysisDone,
                   debouncedFullPrompt, handler, analysisCall, inflight, hist>>
    /\ UNCHANGED <<isLoadingGeneration, generatedImage, ImageEditor, ChatBot, activeTab>>

\* handleGenerateImage up to its await.  Its button is part of the editor, shown
\* once the analysis has delivered a prompt, and is disabled while
\* isLoadingGeneration; an empty full prompt is dropped.
handleGenerateImage ==
    /\ promptParts # Null /\ ~isLoadingAnalysis
    /\ ~isLoadingGeneration
    /\ IF promptParts["fullPrompt"] = <<>>
       THEN /\ UNCHANGED <<error, isLoadingGeneration, generatedImage, generating>>
            /\ last' = [NoLast EXCEPT !.op = "generateRejected"]
       ELSE /\ isLoadingGeneration' = TRUE
            /\ error' = "null"
            /\ generatedImage' = "null"
            /\ generating' = Append(generating, promptParts["fullPrompt"])
            /\ last' = [NoLast EXCEPT !.op = "generate",
                                      !.value = promptParts["fullPrompt"]]
    /\ UNCHANGED <<promptParts, isLoadingAnalysis, isReanalyzing,
                   userIsEditingFullPrompt, initialAnalysisDone,
                   debouncedFullPrompt, handler, analysisCall, inflight, hist>>
    /\ UNCHANGED <<ImageEditor, ChatBot, activeTab>>

\* generateImageFromPrompt resolves
GenerationSucceeds(newImage) ==
    /\ generating # <<>>
    /\ generatedImage' = newImage
    /\ isLoadingGeneration' = FALSE
    /\ generating' = Tail(generating)
    /\ last' = [NoLast EXCEPT !.op = "generateOk", !.resp = newImage]
    /\ UNCHANGED <<promptParts, isLoadingAnalysis, isReanalyzing, error,
                   userIsEditingFullPrompt, initialAnalysisDone,
                   debouncedFullPrompt, handler, analysisCall, inflight, hist>>
    /\ UNCHANGED <<ImageEditor, ChatBot, activeTab>>

\* generateImageFromPrompt rejects
GenerationFails ==
    /\ generating # <<>>
    /\ error' = GenerationError
    /\ isLoadingGeneration' = FALSE
    /\ generating' = Tail(generating)
    /\ last' = [NoLast EXCEPT !.op = "generateFail"]
    /\ UNCHANGED <<promptParts, isLoadingAnalysis, isReanalyzing,
                   userIsEditingFullPrompt, initialAnalysisDone,
                   debouncedFullPrompt, handler, analysisCall, inflight, hist>>
    /\ UNCHANGED <<generatedImage, ImageEditor, ChatBot, activeTab>>

----------------------------------------------------------------------------
(* App: one of the three components is rendered at a time *)

Tabs == { "generator", "editor", "chat" }

\* what the user types into the full prompt in the App specification
AppTexts == { T_a, T_b }

\* A TabButton is clicked: the component shown is unmounted, its state is gone
\* (the timer is cleared by the debounce effect's cleanup; whatever its unsettled
\* calls deliver goes to a component that no longer exists), and the component
\* of the chosen tab is rendered with its initial state.
setActiveTab(tab) ==
    /\ tab # activeTab
    /\ activeTab' = tab
    /\ promptParts' = Null
    /\ isLoadingAnalysis' = TRUE
    /\ isReanalyzing' = FALSE
    /\ error' = "null"
    /\ userIsEditingFullPrompt' = FALSE
    /\ initialAnalysisDone' = FALSE
    /\ debouncedFullPrompt' = <<>>
    /\ handler' = <<>>
    /\ analysisCall' = "idle"
    /\ inflight' = <<>>
    /\ isLoadingGeneration' = FALSE
    /\ generatedImage' = "null"
    /\ generating' = <<>>
    /\ ImageEditor' = EditorMount
    /\ ChatBot' = ChatMount
    /\ hist' = [edits |-> 0, analysisCalls |-> 0, timerBy |-> "none",
                burst |-> 0, typed |-> <<>>]
    /\ last' = [NoLast EXCEPT !.op = "setActiveTab", !.value = tab]

\* a step of PromptGenerator while it is the component shown
GeneratorStep ==
    \/ runAnalysis
    \/ \E result \in AnalysisResults : AnalysisSucceeds(result)
    \/ AnalysisFails
    \/ \E value \in AppTexts : FullPromptEdit(value)
    \/ DebounceTimerFires
    \/ \E i \in 1..Len(inflight) : \E parsed \in Breakdowns : ReanalysisSucceeds(i, parsed)
    \/ \E i \in 1..Len(inflight) : ReanalysisFails(i)
    \/ handleGenerateImage
    \/ \E newImage \in GeneratedImages : GenerationSucceeds(newImage)
    \/ GenerationFails

NextApp ==
    \/ activeTab = "generator" /\ GeneratorStep
    \/ NextEditor
    \/ NextChat
    \/ \E tab \in Tabs : setActiveTab(tab)

SpecApp == Init /\ [][NextApp]_vars

----------------------------------------------------------------------------
(* Properties *)

\* the old value of the field the last step edited
OldValue == last.prev[last.field]

\* str with the first occurrence of pat replaced by the text new, taken literally
LiteralReplaceFirst(str, pat, new) ==
    LET i == IndexOf(str, pat)
    IN  IF i = 0 THEN str
        ELSE SubSeq(str, 1, i - 1) \o new \o SubSeq(str, i + Len(pat), Len(str))

AnalysisError == "Failed to analyze the image. Please try again."
ReanalysisError == "Failed to re-analyze the prompt. Please try again."

\* C1, as claimed: the 500 ms of quiet that end any burst of full-prompt edits
\* see exactly one re-analysis call issued, with the text of the burst's last edit.
C1_EveryBurstOneCall ==
    (last.op \in {"timer", "quiet"} /\ last.burst > 0) => last.issued = <<last.typed>>

\* C1, amended: when the timer set by the last edit of a burst of full-prompt
\* edits fires, one re-analysis call is issued with that edit's text if the text
\* is not blank and differs from debouncedFullPrompt, and none otherwise; a burst
\* that ends in the empty text leaves no timer pending, so it issues no call.
C1_BurstOneCallUnlessBlankOrSame ==
    /\ (last.op = "timer" /\ last.by = "user") =>
           last.issued = IF ~IsBlank(last.typed) /\ last.typed # last.debounced
                         THEN <<last.typed>> ELSE <<>>
    /\ (last.op = "user" /\ last.prev # Null /\ last.value = <<>>) => handler = <<>>

\* C1 witness: a burst of three edits ended with one call, made with the last text.
C1_Witness ==
    /\ last.op = "timer" /\ last.by = "user" /\ last.burst >= 3
    /\ last.issued = <<last.typed>>
    /\ inflight # <<>> /\ inflight[Len(inflight)] = last.typed

\* C2, as claimed: the firing of a timer that a re-analysis commit set issues no
\* re-analysis call.
C2_CommitStartsNoCall ==
    (last.op = "timer" /\ last.by = "commit") => last.issued = <<>>

\* C3: right after a successful re-analysis commits, fullPrompt is the submitted
\* text and the seven named fields are those of the Gateway's response.
C3_FullPromptPreserved ==
    last.op = "commit" =>
        /\ promptParts["fullPrompt"] = last.text
        /\ \A f \in Fields : promptParts[f] = last.resp[f]

\* C3 witness: a commit whose response echoed another text than the one submitted.
C3_Witness ==
    /\ last.op = "commit"
    /\ last.resp["fullPrompt"] # last.text
    /\ promptParts["fullPrompt"] = last.text

\* C4, as claimed: a re-analysis commit leaves fullPrompt as it was just before
\* the commit, and leaves the debounce timer as it was.
C4_CommitKeepsText ==
    last.op = "commit" =>
        /\ promptParts["fullPrompt"] = last.prev["fullPrompt"]
        /\ hist.timerBy = last.by

\* C5, as claimed: the firing of a timer that a named-field edit set issues no
\* re-analysis call.
C5_FieldEditNoCall ==
    (last.op = "timer" /\ last.by = "field") => last.issued = <<>>

\* C6, as claimed, for an old value that holds a visible character (so it is not
\* empty): after the edit of the named field, fullPrompt is the normalization of
\* the previous fullPrompt with the first occurrence of the old value replaced by
\* the new value, taken literally.
C6_ReplaceFirstLiteral ==
    (last.op = "field" /\ last.prev # Null /\ ~IsBlank(OldValue)) =>
        promptParts["fullPrompt"] =
            Normalize(LiteralReplaceFirst(last.prev["fullPrompt"], OldValue, last.value))

\* C7: after the edit of a named field whose old value is empty, fullPrompt is
\* normalize(value) when the previous fullPrompt was blank and
\* normalize(previous + ", " + value) otherwise; with an empty new value it is
\* normalize(previous).
C7_AppendWhenEmpty ==
    (last.op = "field" /\ last.prev # Null /\ OldValue = <<>>) =>
        promptParts["fullPrompt"] =
            IF last.value = <<>> THEN Normalize(last.prev["fullPrompt"])
            ELSE IF IsBlank(last.prev["fullPrompt"]) THEN Normalize(last.value)
            ELSE Normalize(last.prev["fullPrompt"] \o <<",", " ">> \o last.value)

\* C7 witness: the field was empty, "a" was typed, and "a" became "a, a".
C7_Witness ==
    /\ last.op = "field" /\ last.prev # Null /\ OldValue = <<>>
    /\ last.prev["fullPrompt"] = <<"a">> /\ last.value = <<"a">>
    /\ promptParts["fullPrompt"] = <<"a", ",", " ", "a">>

\* C8: normalizing once more the text a field edit has normalized changes nothing.
C8_NormalizeIdempotent ==
    (last.op = "field" /\ last.prev # Null) =>
        Normalize(promptParts["fullPrompt"]) = promptParts["fullPrompt"]

\* C8 witness: an edit that did nothing but normalize, and changed the text.
C8_Witness ==
    /\ last.op = "field" /\ last.prev # Null
    /\ OldValue = <<>> /\ last.value = <<>>
    /\ promptParts["fullPrompt"] # last.prev["fullPrompt"]
    /\ Len(SplitComma(last.prev["fullPrompt"])) >= 2

\* C9: one image-analysis call per activation; while it is pending the prompt is
\* absent and loading is shown; on success the prompt is the result; after a
\* failure the error is set, the prompt stays absent and no call follows.
C9_OneAnalysis ==
    /\ hist.analysisCalls = IF analysisCall = "idle" THEN 0 ELSE 1
    /\ analysisCall = "pending" => (promptParts = Null /\ isLoadingAnalysis)
    /\ last.op = "analysisOk" => (promptParts = last.resp /\ ~isLoadingAnalysis)
    /\ analysisCall = "failed" =>
           /\ promptParts = Null
           /\ error = AnalysisError
           /\ ~isLoadingAnalysis
           /\ inflight = <<>>

\* C9 witness: the analysis failed, the user went on editing, the prompt is absent.
C9_Witness ==
    /\ analysisCall = "failed" /\ hist.edits > 0 /\ promptParts = Null
    /\ hist.analysisCalls = 1

\* C10: right after a re-analysis call fails, the error is set, the prompt is
\* what it was just before, and no call was issued in its place.
C10_FailureKeepsPrompt ==
    last.op = "reanalysisFail" =>
        /\ error = ReanalysisError
        /\ promptParts = last.prev
        /\ Len(inflight) = Len(last.inflight) - 1

\* C10 witness: a call failed and the text the user typed is still in the field.
C10_Witness ==
    /\ last.op = "reanalysisFail"
    /\ promptParts # Null /\ promptParts["fullPrompt"] = hist.typed
    /\ hist.typed = last.text
    /\ error = ReanalysisError

\* C14: a successful response is committed whole whatever happened since its
\* call was issued (the prompt becomes the response with the submitted text as
\* fullPrompt), and a call leaves the unsettled calls only by settling: no edit
\* and no newer call cancels it.
C14_StaleResultCommitted ==
    /\ [](last.op = "commit" =>
              promptParts = [last.resp EXCEPT !["fullPrompt"] = last.text])
    /\ [][Len(inflight') < Len(inflight) =>
              /\ Len(inflight') = Len(inflight) - 1
              /\ last'.op \in {"commit", "reanalysisFail"}]_vars

\* C14 witness: the result of the older of two unsettled calls is committed over
\* a text the user has changed since.
C14_Witness ==
    /\ last.op = "commit"
    /\ Len(last.inflight) >= 2 /\ last.text = last.inflight[1]
    /\ last.prev["fullPrompt"] # last.text
    /\ promptParts = [last.resp EXCEPT !["fullPrompt"] = last.text]

\* C15, as claimed: a timer that fires with the flag set (the initial analysis
\* done) clears the flag and issues a re-analysis call with the current text of
\* the full prompt; a timer that fires with the flag clear issues none.
C15_TriggerWheneverDirty ==
    last.op = "timer" =>
        IF last.flag /\ initialAnalysisDone
        THEN ~userIsEditingFullPrompt /\ last.issued = <<last.prev["fullPrompt"]>>
        ELSE last.issued = <<>>

\* C15, amended: the timer carries the current text of the full prompt; when it
\* fires with the flag set, the initial analysis done and a text other than
\* debouncedFullPrompt, the flag is cleared and, unless the text is blank, one
\* re-analysis call is issued with that text; otherwise the flag is left as it
\* was and no call is issued; and no other step issues a re-analysis call.
C15_TriggerWhenDirtyAndChanged ==
    /\ [](last.op = "timer" =>
              /\ last.text = last.prev["fullPrompt"]
              /\ IF last.flag /\ initialAnalysisDone /\ last.text # last.debounced
                 THEN /\ ~userIsEditingFullPrompt
                      /\ last.issued = IF IsBlank(last.text) THEN <<>>
                                       ELSE <<last.text>>
                 ELSE /\ userIsEditingFullPrompt = last.flag
                      /\ last.issued = <<>>)
    /\ [][Len(inflight') > Len(inflight) =>
              /\ last'.op = "timer" /\ last'.flag /\ initialAnalysisDone
              /\ inflight' = Append(inflight, last'.text)]_vars

\* C15 witness: a timer fired with the flag set and a call went out with its text.
C15_Witness ==
    /\ last.op = "timer" /\ last.flag
    /\ last.issued = <<last.text>>
    /\ ~userIsEditingFullPrompt
    /\ inflight # <<>> /\ inflight[Len(inflight)] = promptParts["fullPrompt"]

\* C16: right after an edit of the full prompt with text V, a present prompt has
\* fullPrompt = V as typed, its named fields as before, and the flag is set; an
\* absent prompt is still absent and the flag is as it was.
C16_FullPromptEditVerbatim ==
    last.op = "user" =>
        IF last.prev # Null
        THEN /\ promptParts = [last.prev EXCEPT !["fullPrompt"] = last.value]
             /\ userIsEditingFullPrompt
        ELSE /\ promptParts = Null
             /\ userIsEditingFullPrompt = last.flag
             /\ ~userIsEditingFullPrompt

\* C16 witness: a text that normalization would change was typed over a prompt
\* whose scene is set, and is in the field as typed.
C16_Witness ==
    /\ last.op = "user" /\ last.prev # Null
    /\ last.value = <<" ">> /\ Normalize(last.value) # last.value
    /\ promptParts["fullPrompt"] = <<" ">>
    /\ promptParts["scene"] # <<>>
    /\ ~last.flag /\ userIsEditingFullPrompt

\* the transcript a quiet chat must show: the greeting, then for each accepted
\* submission the user message and the model message that answered it
RECURSIVE Transcript(_, _)
Transcript(sent, replies) ==
    IF sent = <<>> THEN <<Greeting>>
    ELSE Transcript(SubSeq(sent, 1, Len(sent) - 1), SubSeq(replies, 1, Len(replies) - 1))
             \o << [role |-> "user", text |-> sent[Len(sent)]], replies[Len(replies)] >>

\* C11: with no turn outstanding after N accepted submissions, the transcript
\* has 2N+1 messages: the greeting, then for each submission its user message
\* as typed followed by its model message, the response text or the fixed error.
C11_TranscriptAfterNTurns ==
    (ChatBot.chat # "null" /\ ChatBot.sending = <<>>) =>
        /\ Len(ChatBot.replies) = Len(ChatBot.sent)
        /\ Len(ChatBot.messages) = 2 * Len(ChatBot.sent) + 1
        /\ ChatBot.messages = Transcript(ChatBot.sent, ChatBot.replies)
        /\ \A k \in 1..Len(ChatBot.sent) :
               /\ ChatBot.messages[2 * k].role = "user"
               /\ ChatBot.messages[2 * k + 1].role = "model"
               /\ \/ ChatBot.messages[2 * k + 1] = ChatError
                  \/ ChatBot.messages[2 * k + 1].text \in ChatReplies

\* C11 witness: three turns done, one failed and one answered, 7 messages.
C11_Witness ==
    /\ ChatBot.sending = <<>> /\ Len(ChatBot.sent) = 3
    /\ Len(ChatBot.messages) = 7
    /\ ChatBot.messages[3] = ChatError
    /\ ChatBot.messages[5] = [role |-> "model", text |-> T_b]
    /\ ChatBot.messages[4] = [role |-> "user", text |-> <<"a", " ">>]

\* whether s is a prefix of t
IsPrefix(s, t) == Len(s) <= Len(t) /\ SubSeq(t, 1, Len(s)) = s

\* C12: at most one chat turn is outstanding; a submission made while one is
\* outstanding is rejected and changes nothing of the chat (no message, no
\* call); and every step leaves the old transcript as a prefix of the new one.
C12_OneTurnAppendOnly ==
    /\ [](Len(ChatBot.sending) <= 1 /\ (ChatBot.isLoading <=> ChatBot.sending # <<>>))
    /\ [][(ChatBot.isLoading /\ last'.op \in {"send", "sendRejected"}) =>
              (last'.op = "sendRejected" /\ ChatBot' = ChatBot)]_vars
    /\ [][IsPrefix(ChatBot.messages, ChatBot'.messages)]_vars

\* C12 witness: a submission was rejected while a turn was outstanding.
C12_Witness ==
    /\ last.op = "sendRejected"
    /\ ChatBot.isLoading /\ Len(ChatBot.sending) = 1
    /\ Len(ChatBot.messages) = 4
    /\ ChatBot.messages[4].role = "user"

\* C13: an edit invoked with a non-empty instruction leaves result and error
\* empty and isLoading raised, with one call out on the uploaded image; when the
\* call succeeds the result slot holds its result and no error; when it fails
\* the error is shown and the result slot is empty.
C13_EditReplacesResult ==
    /\ last.op = "edit" =>
           /\ last.value # <<>>
           /\ ImageEditor.editedImage = "null" /\ ImageEditor.error = "null"
           /\ ImageEditor.isLoading
           /\ ImageEditor.editing = << [prompt |-> last.value, image |-> "original"] >>
    /\ last.op = "editOk" =>
           /\ ImageEditor.editedImage = last.resp /\ ImageEditor.error = "null"
           /\ ~ImageEditor.isLoading
    /\ last.op = "editFail" =>
           /\ ImageEditor.editedImage = "null" /\ ImageEditor.error = EditError
           /\ ~ImageEditor.isLoading
    /\ ImageEditor.isLoading =>
           ImageEditor.editedImage = "null" /\ ImageEditor.error = "null"

\* C13 witness: an edit was invoked while the result of an earlier edit was
\* shown; the slot is empty and the call is out.
C13_Witness ==
    /\ last.op = "edit" /\ last.prev.editedImage = "edited1"
    /\ ImageEditor.editedImage = "null" /\ ImageEditor.isLoading
    /\ Len(ImageEditor.editing) = 1

\* C17, as claimed: for the component shown, a pending flag is true only while
\* a call of its kind is outstanding.
C17_NoCallNoFlag ==
    /\ activeTab = "generator" =>
           /\ analysisCall # "pending" => ~isLoadingAnalysis
           /\ inflight = <<>> => ~isReanalyzing
           /\ generating = <<>> => ~isLoadingGeneration
    /\ activeTab = "editor" => (ImageEditor.editing = <<>> => ~ImageEditor.isLoading)
    /\ activeTab = "chat" => (ChatBot.sending = <<>> => ~ChatBot.isLoading)

\* C17, amended: the same, except that isLoadingAnalysis is true already when
\* PromptGenerator is mounted, before its mount effect has issued the call.
C17_NoCallNoFlagOnceIssued ==
    /\ activeTab = "generator" =>
           /\ analysisCall \in {"ok", "failed"} => ~isLoadingAnalysis
           /\ analysisCall = "idle" => (isLoadingAnalysis /\ promptParts = Null)
           /\ inflight = <<>> => ~isReanalyzing
           /\ generating = <<>> => ~isLoadingGeneration
    /\ activeTab = "editor" => (ImageEditor.editing = <<>> => ~ImageEditor.isLoading)
    /\ activeTab = "chat" => (ChatBot.sending = <<>> => ~ChatBot.isLoading)

\* C17 witness: a generation call has failed after a re-analysis call failed and
\* nothing is outstanding; no flag is up.
C17_Witness ==
    /\ activeTab = "generator"
    /\ last.op = "generateFail" /\ error = GenerationError
    /\ analysisCall = "ok" /\ inflight = <<>> /\ generating = <<>>
    /\ debouncedFullPrompt # <<>>
    /\ ~isLoadingAnalysis /\ ~isReanalyzing /\ ~isLoadingGeneration

====
